---- MODULE Spec2Model ----
(***************************************************************************)
(* Model of snyk_ignore_csv.py: the URL identifier parsers, the ignore API *)
(* client with its 429 retry loop, and the CSV row processor.              *)
(*                                                                         *)
(* A Python str is a sequence of one-character strings; Python's None is   *)
(* the one-element sequence None, which no str can equal because its only  *)
(* element is not a single character.                                      *)
(***************************************************************************)
EXTENDS Integers, Sequences, FiniteSets, TLC

VARIABLES
    pc,                 \* position of the single thread of control
    exc,                \* exception that left the running function, or "none"
    reason_text,        \* process_csv argument (--text)
    ignore_text_column, \* process_csv argument (--ignore-text-column)
    rows,               \* the rows csv.DictReader yields, in file order
    idx,                \* number of rows the reader has yielded so far
    issue_url,          \* local of process_csv / argument of the parsers
    org_id,             \* local of process_csv / result of parse_org_id
    project_id,         \* local of process_csv / result of parse_project_id
    issue_id,           \* local of process_csv / result of parse_issue_id
    final_reason_text,  \* local of process_csv / reason_text of the call
    budget,             \* max_retries as handed to call_snyk_ignore_api
    max_retries,        \* max_retries after the coercion to at least 1
    attempt,            \* loop variable of call_snyk_ignore_api
    request,            \* the last request handed to requests.post
    response,           \* the last response of requests.post
    retry_after,        \* local of call_snyk_ignore_api
    trace,              \* POSTs and sleeps of the current call, in order
    out                 \* outcome lines printed by process_csv, in order

vars == <<pc, exc, reason_text, ignore_text_column, rows, idx, issue_url,
          org_id, project_id, issue_id, final_reason_text, budget,
          max_retries, attempt, request,
          response, retry_after, trace, out>>

----------------------------------------------------------------------------
(* Bounds of the model *)

MaxRows == 2        \* rows in the CSV file
MaxPieces == 4      \* pieces a parsed URL is assembled from
MaxBudget == 3      \* largest retry budget handed to call_snyk_ignore_api

----------------------------------------------------------------------------
(* Python values and str operations *)

None == <<"None">>

\* Python truthiness of an Optional[str]: None and "" are falsy
Truthy(v) == v # None /\ v # <<>>

\* s.find(sub) from position i (1-based); 0 when there is no occurrence
Find(s, sub, i) ==
    LET C == {j \in i..(Len(s) - Len(sub) + 1) :
                 SubSeq(s, j, j + Len(sub) - 1) = sub}
    IN IF C = {} THEN 0 ELSE CHOOSE j \in C : \A k \in C : j <= k

\* sub in s
Contains(s, sub) == Find(s, sub, 1) # 0

RECURSIVE SplitFrom(_, _, _)
SplitFrom(s, sep, i) ==
    LET j == Find(s, sep, i)
    IN IF j = 0 THEN <<SubSeq(s, i, Len(s))>>
       ELSE <<SubSeq(s, i, j - 1)>> \o SplitFrom(s, sep, j + Len(sep))

\* s.split(sep): every non-overlapping occurrence of sep, left to right
split(s, sep) == SplitFrom(s, sep, 1)

Whitespace == {" ", "\t", "\n", "\r"}

\* s.strip()
strip(s) ==
    LET K == {i \in 1..Len(s) : s[i] \notin Whitespace}
    IN IF K = {} THEN <<>>
       ELSE SubSeq(s, CHOOSE i \in K : \A k \in K : i <= k,
                      CHOOSE i \in K : \A k \in K : i >= k)

HexDigits == {"0","1","2","3","4","5","6","7","8","9",
              "A","B","C","D","E","F","a","b","c","d","e","f"}

HexVal(c) ==
    CASE c = "0" -> 0 [] c = "1" -> 1 [] c = "2" -> 2 [] c = "3" -> 3
      [] c = "4" -> 4 [] c = "5" -> 5 [] c = "6" -> 6 [] c = "7" -> 7
      [] c = "8" -> 8 [] c = "9" -> 9
      [] c \in {"A", "a"} -> 10 [] c \in {"B", "b"} -> 11
      [] c \in {"C", "c"} -> 12 [] c \in {"D", "d"} -> 13
      [] c \in {"E", "e"} -> 14 [] c \in {"F", "f"} -> 15

\* the ASCII characters 32..126 (GRAVE stands for the backquote)
Ascii == <<" ", "!", "\"", "#", "$", "%", "&", "'", "(", ")", "*", "+", ",",
           "-", ".", "/", "0", "1", "2", "3", "4", "5", "6", "7", "8", "9",
           ":", ";", "<", "=", ">", "?", "@", "A", "B", "C", "D", "E", "F",
           "G", "H", "I", "J", "K", "L", "M", "N", "O", "P", "Q", "R", "S",
           "T", "U", "V", "W", "X", "Y", "Z", "[", "\\", "]", "^", "_", "GRAVE",
           "a", "b", "c", "d", "e", "f", "g", "h", "i", "j", "k", "l", "m",
           "n", "o", "p", "q", "r", "s", "t", "u", "v", "w", "x", "y", "z",
           "{", "|", "}", "~">>

\* The character one percent-decoded byte becomes.  A byte of 0x80 or more
\* that is not part of a valid UTF-8 sequence decodes to U+FFFD
\* (errors='replace'); the URL alphabet below has no UTF-8 lead byte.
Chr(n) ==
    IF n >= 32 /\ n <= 126 THEN Ascii[n - 31]
    ELSE IF n >= 128 THEN "U+FFFD"
    ELSE "CTRL"

RECURSIVE UnquoteFrom(_, _)
UnquoteFrom(s, i) ==
    IF i > Len(s) THEN <<>>
    ELSE IF s[i] = "%" /\ i + 2 <= Len(s)
            /\ s[i + 1] \in HexDigits /\ s[i + 2] \in HexDigits
         THEN <<Chr(16 * HexVal(s[i + 1]) + HexVal(s[i + 2]))>>
                  \o UnquoteFrom(s, i + 3)
         ELSE <<s[i]>> \o UnquoteFrom(s, i + 1)

\* urllib.parse.unquote: %XX becomes the character, anything else is kept
unquote(s) == UnquoteFrom(s, 1)

ISSUE_MARKER == <<"#", "i", "s", "s", "u", "e", "-">>
PROJECT_MARKER == <<"/", "p", "r", "o", "j", "e", "c", "t", "/">>
ORG_MARKER == <<"/", "o", "r", "g", "/">>

----------------------------------------------------------------------------
(* The URL identifier parsers *)

parse_issue_id(u) ==
    IF ~Contains(u, ISSUE_MARKER) THEN None
    ELSE unquote(split(u, ISSUE_MARKER)[2])

parse_project_id(u) ==
    IF ~Contains(u, PROJECT_MARKER) THEN None
    ELSE split(split(split(u, PROJECT_MARKER)[2], <<"#">>)[1], <<"/">>)[1]

parse_org_id(u) ==
    IF ~Contains(u, ORG_MARKER) THEN None
    ELSE LET parts == split(split(u, ORG_MARKER)[2], <<"/">>)
         IN IF parts = <<>> THEN None ELSE parts[1]

----------------------------------------------------------------------------
(* int(), dict.get() and the values of the environment *)

Digits == {"0", "1", "2", "3", "4", "5", "6", "7", "8", "9"}

RECURSIVE DigitsVal(_)
DigitsVal(s) ==
    IF s = <<>> THEN 0
    ELSE 10 * DigitsVal(SubSeq(s, 1, Len(s) - 1)) + HexVal(s[Len(s)])

\* int(s) for a str: surrounding whitespace is dropped, an optional sign and
\* at least one digit must remain; anything else raises ValueError
int(s) ==
    LET t == strip(s)
        signed == t # <<>> /\ t[1] \in {"+", "-"}
        d == IF signed THEN Tail(t) ELSE t
    IN IF d # <<>> /\ \A i \in 1..Len(d) : d[i] \in Digits
       THEN [ok |-> TRUE,
             val |-> IF signed /\ t[1] = "-" THEN 0 - DigitsVal(d)
                     ELSE DigitsVal(d)]
       ELSE [ok |-> FALSE, val |-> 0]

\* d.get(k, default): the default only when the key is not in the dict
DictGet(d, k, default) == IF k \in DOMAIN d THEN d[k] ELSE default

ISSUE_URL == <<"I", "S", "S", "U", "E", "_", "U", "R", "L">>
RETRY_AFTER == <<"R", "e", "t", "r", "y", "-", "A", "f", "t", "e", "r">>
DEFAULT_RETRY_AFTER == <<"1", "0">>

\* default value of the max_retries parameter
DefaultMaxRetries == 3

NoHeaders == [k \in {} |-> <<>>]

RetryAfterValues ==
    {<<" ", "2">>, <<"-", "1">>, <<"W", "e", "d">>}

\* what requests.post may return: any status, and on a 429 any Retry-After
Responses ==
    {[status_code |-> c, headers |-> NoHeaders] : c \in {200, 201, 404, 429}}
    \cup {[status_code |-> 429, headers |-> [k \in {RETRY_AFTER} |-> v]] :
             v \in RetryAfterValues}

\* before the first POST of a call nothing was sent and nothing received
NoRequest ==
    [org_id |-> None, project_id |-> None, issue_id |-> None, reason |-> None]

NoResponse == [status_code |-> 0, headers |-> NoHeaders]

----------------------------------------------------------------------------
(* call_snyk_ignore_api *)

\* a coercion that lets the loop run once more than the budget
CoerceRetriesOffByOne(b) == IF b <= 0 THEN 1 ELSE b + 1

CoerceRetries(b) == IF b <= 0 THEN 1 ELSE b

\* the url and the JSON payload of the POST, as far as they vary per row
BuildRequest(org, project, issue, reason) ==
    [org_id |-> org, project_id |-> project, issue_id |-> issue,
     reason |-> reason]

\* entry of a direct call: the coercion of max_retries
CallEntry ==
    /\ pc = "call"
    /\ max_retries' = CoerceRetries(budget)
    /\ attempt' = 0
    /\ pc' = "post"
    /\ UNCHANGED <<exc, reason_text, ignore_text_column, rows, idx, issue_url,
                   org_id, project_id, issue_id, final_reason_text, budget,
                   request, response, retry_after, trace, out>>

\* one requests.post and the test of its status; on a 429 the Retry-After
\* header is read and converted
Post ==
    /\ pc = "post"
    /\ \E r \in Responses :
        /\ request' = BuildRequest(org_id, project_id, issue_id,
                                   final_reason_text)
        /\ response' = r
        /\ trace' = Append(trace,
                            [kind |-> "post", status |-> r.status_code,
                             header |-> DictGet(r.headers, RETRY_AFTER, None),
                             secs |-> 0])
        /\ IF r.status_code = 429
           THEN LET p == int(DictGet(r.headers, RETRY_AFTER,
                                     DEFAULT_RETRY_AFTER))
                IN IF p.ok
                   THEN /\ retry_after' = p.val
                        /\ pc' = "sleep"
                        /\ exc' = exc
                   ELSE /\ exc' = "ValueError"
                        /\ pc' = "raised"
                        /\ retry_after' = retry_after
           ELSE /\ pc' = "returned"
                /\ UNCHANGED <<exc, retry_after>>
    /\ UNCHANGED <<reason_text, ignore_text_column, rows, idx, issue_url,
                   org_id, project_id, issue_id, final_reason_text, budget,
                   max_retries, attempt, out>>

\* time.sleep(retry_after) and the step of the for loop; after the last
\* attempt the loop ends and the last response is returned
Sleep ==
    /\ pc = "sleep"
    /\ IF retry_after < 0
       THEN /\ exc' = "ValueError"
            /\ pc' = "raised"
            /\ UNCHANGED <<attempt, trace>>
       ELSE /\ trace' = Append(trace, [kind |-> "sleep", status |-> 0,
                                       header |-> None,
                                       secs |-> retry_after])
            /\ attempt' = attempt + 1
            /\ pc' = IF attempt + 1 < max_retries THEN "post" ELSE "returned"
            /\ exc' = exc
    /\ UNCHANGED <<reason_text, ignore_text_column, rows, idx, issue_url,
                   org_id, project_id, issue_id, final_reason_text, budget,
                   max_retries, request, response, retry_after, out>>

----------------------------------------------------------------------------
(* process_csv *)

\* a verdict that takes every 2xx status for a success
ClassificationAny2xx(status) ==
    IF status >= 200 /\ status <= 299 THEN "Success" ELSE "Failed"

\* the printed verdict for a final response
Classification(status) == IF status = 200 THEN "Success" ELSE "Failed"

\* final_reason_text of a row, or the reason the row makes no call:
\* "raise" stands for the AttributeError of None.strip()
ReasonFor(row) ==
    LET base == IF Truthy(reason_text) THEN reason_text ELSE <<>>
    IN IF ~Truthy(ignore_text_column)
       THEN [kind |-> "call", text |-> base]
       ELSE LET raw == DictGet(row, ignore_text_column, <<>>)
            IN IF raw = None THEN [kind |-> "raise", text |-> base]
               ELSE LET column_text == strip(raw)
                    IN IF ~Truthy(column_text)
                       THEN IF ~Truthy(reason_text)
                            THEN [kind |-> "skip_text", text |-> base]
                            ELSE [kind |-> "call", text |-> base]
                       ELSE IF Truthy(reason_text)
                            THEN [kind |-> "call",
                                  text |-> reason_text \o <<" ">>
                                               \o column_text]
                            ELSE [kind |-> "call", text |-> column_text]

\* one iteration of the for loop up to its continue, its call of
\* call_snyk_ignore_api, or the exception that leaves it
RowStep(row) ==
    LET raw == DictGet(row, ISSUE_URL, <<>>)
        url == IF raw = None THEN None ELSE strip(raw)
        org == IF Truthy(url) THEN parse_org_id(url) ELSE None
        project == IF Truthy(url) THEN parse_project_id(url) ELSE None
        issue == IF Truthy(url) THEN parse_issue_id(url) ELSE None
        why == ReasonFor(row)
        kind == IF raw = None THEN "raise"
                ELSE IF ~Truthy(url) THEN "skip_url"
                ELSE IF ~Truthy(org) \/ ~Truthy(project) \/ ~Truthy(issue)
                     THEN "skip_ids"
                ELSE why.kind
    IN [kind |-> kind, url |-> url, org |-> org, project |-> project,
        issue |-> issue, text |-> why.text]

NextRow ==
    /\ pc = "loop"
    /\ idx < Len(rows)
    /\ idx' = idx + 1
    /\ LET s == RowStep(rows[idx + 1])
       IN /\ issue_url' = s.url
          /\ org_id' = s.org
          /\ project_id' = s.project
          /\ issue_id' = s.issue
          /\ final_reason_text' = IF s.kind \in {"call", "skip_text"}
                                  THEN s.text ELSE final_reason_text
          /\ trace' = <<>>
          /\ request' = NoRequest
          /\ response' = NoResponse
          /\ attempt' = 0
          /\ CASE s.kind = "raise" ->
                    /\ exc' = "AttributeError"
                    /\ pc' = "raised"
                    /\ UNCHANGED <<out, budget, max_retries>>
               [] s.kind = "call" ->
                    /\ budget' = DefaultMaxRetries
                    /\ max_retries' = CoerceRetries(DefaultMaxRetries)
                    /\ pc' = "post"
                    /\ UNCHANGED <<out, exc>>
               [] OTHER ->
                    /\ out' = Append(out, [row |-> idx + 1,
                                           kind |-> "Skipped",
                                           status |-> 0])
                    /\ pc' = "loop"
                    /\ UNCHANGED <<exc, budget, max_retries>>
    /\ UNCHANGED <<reason_text, ignore_text_column, rows, retry_after>>

\* the print after the call returned
Report ==
    /\ pc = "returned"
    /\ out' = Append(out, [row |-> idx,
                           kind |-> Classification(response.status_code),
                           status |-> response.status_code])
    /\ pc' = "loop"
    /\ UNCHANGED <<exc, reason_text, ignore_text_column, rows, idx, issue_url,
                   org_id, project_id, issue_id, final_reason_text, budget,
                   max_retries, attempt, request, response, retry_after,
                   trace>>

\* the reader is exhausted: process_csv returns
Finish ==
    /\ pc = "loop"
    /\ idx = Len(rows)
    /\ pc' = "done"
    /\ UNCHANGED <<exc, reason_text, ignore_text_column, rows, idx, issue_url,
                   org_id, project_id, issue_id, final_reason_text, budget,
                   max_retries, attempt, request, response, retry_after,
                   trace, out>>

----------------------------------------------------------------------------
(* Inputs *)

Absent == <<"Absent">>
Unset == <<"Unset">>

REASON_COLUMN == <<"R">>

\* a row of the DictReader: a column the header lacks is no key of the dict,
\* a column the row is too short for has the value None
MkRow(u, r) ==
    [k \in (IF u = Absent THEN {} ELSE {ISSUE_URL})
           \cup (IF r = Absent THEN {} ELSE {REASON_COLUMN}) |->
        IF k = ISSUE_URL THEN u ELSE r]

UrlGood == <<" ">> \o ORG_MARKER \o <<"o">> \o PROJECT_MARKER \o <<"p">>
              \o ISSUE_MARKER \o <<"a", "%", "3", "A", "b", " ">>
UrlNoOrg == PROJECT_MARKER \o <<"p">> \o ISSUE_MARKER \o <<"a">>
UrlEmptyProject == ORG_MARKER \o <<"o">> \o PROJECT_MARKER \o ISSUE_MARKER
                      \o <<"a">>
UrlEmptyIssue == ORG_MARKER \o <<"o">> \o PROJECT_MARKER \o <<"p">>
                    \o ISSUE_MARKER

\* rows whose ISSUE_URL is absent, None, blank or unparsable, and rows with
\* a good URL whose reason column is filled, blank, absent or None
RowSet ==
    {MkRow(u, <<"c">>) : u \in {Absent, None, <<" ", "\t">>, UrlNoOrg,
                                UrlEmptyProject, UrlEmptyIssue}}
    \cup {MkRow(UrlGood, r) : r \in {Absent, None, <<" ">>,
                                     <<" ", "c", " ">>}}

RECURSIVE SeqsUpTo(_, _)
SeqsUpTo(S, n) ==
    IF n = 0 THEN {<<>>}
    ELSE LET R == SeqsUpTo(S, n - 1)
         IN R \cup {Append(q, x) : q \in R, x \in S}

StaticText == <<"B", ":">>

\* parse_args refuses a run with neither --text nor --ignore-text-column
Configurations ==
    {c \in [text : {None, <<>>, StaticText},
            column : {None, REASON_COLUMN}] :
        Truthy(c.text) \/ Truthy(c.column)}

UrlPieces == {ORG_MARKER, PROJECT_MARKER, ISSUE_MARKER, <<"o">>, <<"/">>,
              <<"#">>, <<"%", "3", "A">>, <<"%", "2">>, <<"5">>}

RECURSIVE Flatten(_)
Flatten(q) == IF q = <<>> THEN <<>> ELSE Head(q) \o Flatten(Tail(q))

UrlSet == {Flatten(q) : q \in SeqsUpTo(UrlPieces, MaxPieces)}

----------------------------------------------------------------------------
(* Specifications *)

\* process_csv on a CSV file of at most MaxRows rows
Init ==
    /\ pc = "loop"
    /\ exc = "none"
    /\ \E c \in Configurations :
        /\ reason_text = c.text
        /\ ignore_text_column = c.column
    /\ rows \in SeqsUpTo(RowSet, MaxRows)
    /\ idx = 0
    /\ issue_url = Unset
    /\ org_id = Unset
    /\ project_id = Unset
    /\ issue_id = Unset
    /\ final_reason_text = Unset
    /\ budget = DefaultMaxRetries
    /\ max_retries = DefaultMaxRetries
    /\ attempt = 0
    /\ request = NoRequest
    /\ response = NoResponse
    /\ retry_after = 0
    /\ trace = <<>>
    /\ out = <<>>

Next == NextRow \/ Post \/ Sleep \/ Report \/ Finish

Spec == Init /\ [][Next]_vars

\* one direct call of call_snyk_ignore_api with any retry budget
InitCall ==
    /\ pc = "call"
    /\ exc = "none"
    /\ reason_text = StaticText
    /\ ignore_text_column = None
    /\ rows = <<>>
    /\ idx = 0
    /\ issue_url = Unset
    /\ org_id = <<"o">>
    /\ project_id = <<"p">>
    /\ issue_id = <<"a", ":", "b">>
    /\ final_reason_text = StaticText
    /\ budget \in (0 - 1)..MaxBudget
    /\ max_retries = budget
    /\ attempt = 0
    /\ request = NoRequest
    /\ response = NoResponse
    /\ retry_after = 0
    /\ trace = <<>>
    /\ out = <<>>

NextCall == CallEntry \/ Post \/ Sleep

SpecCall == InitCall /\ [][NextCall]_vars

\* the three parsers applied to one URL
ParseOrg ==
    /\ pc = "parse"
    /\ org_id = Unset
    /\ org_id' = parse_org_id(issue_url)
    /\ UNCHANGED <<pc, exc, reason_text, ignore_text_column, rows, idx,
                   issue_url, project_id, issue_id, final_reason_text, budget,
                   max_retries, attempt, request, response, retry_after,
                   trace, out>>

ParseProject ==
    /\ pc = "parse"
    /\ project_id = Unset
    /\ project_id' = parse_project_id(issue_url)
    /\ UNCHANGED <<pc, exc, reason_text, ignore_text_column, rows, idx,
                   issue_url, org_id, issue_id, final_reason_text, budget,
                   max_retries, attempt, request, response, retry_after,
                   trace, out>>

ParseIssue ==
    /\ pc = "parse"
    /\ issue_id = Unset
    /\ issue_id' = parse_issue_id(issue_url)
    /\ UNCHANGED <<pc, exc, reason_text, ignore_text_column, rows, idx,
                   issue_url, org_id, project_id, final_reason_text, budget,
                   max_retries, attempt, request, response, retry_after,
                   trace, out>>

InitParse ==
    /\ pc = "parse"
    /\ exc = "none"
    /\ reason_text = None
    /\ ignore_text_column = None
    /\ rows = <<>>
    /\ idx = 0
    /\ issue_url \in UrlSet
    /\ org_id = Unset
    /\ project_id = Unset
    /\ issue_id = Unset
    /\ final_reason_text = Unset
    /\ budget = DefaultMaxRetries
    /\ max_retries = DefaultMaxRetries
    /\ attempt = 0
    /\ request = NoRequest
    /\ response = NoResponse
    /\ retry_after = 0
    /\ trace = <<>>
    /\ out = <<>>

NextParse == ParseOrg \/ ParseProject \/ ParseIssue

SpecParse == InitParse /\ [][NextParse]_vars

----------------------------------------------------------------------------
(* Properties *)

IsPost(e) == e.kind = "post"
IsSleep(e) == e.kind = "sleep"
NPosts == Len(SelectSeq(trace, IsPost))
NSleeps == Len(SelectSeq(trace, IsSleep))
PostStatuses == LET q == SelectSeq(trace, IsPost)
                IN [i \in 1..Len(q) |-> q[i].status]
MinOf(S) == CHOOSE x \in S : \A y \in S : x <= y
OutRows == {out[i].row : i \in 1..Len(out)}
LastOut == out[Len(out)]

\* C1: one call makes exactly min(B, k) POSTs, B = max(1, budget) and k the
\* position of the first response that is not a 429; a response that is not
\* a 429 is returned at once, and after B responses of 429 the last one is
\* returned and nothing is raised.
C1_PostCount ==
    pc \in {"returned", "raised"} =>
        LET B == IF budget > 1 THEN budget ELSE 1
            K == {i \in DOMAIN PostStatuses : PostStatuses[i] # 429}
        IN /\ pc = "returned"
           /\ exc = "none"
           /\ IF K # {}
              THEN /\ NPosts = MinOf(K)
                   /\ NPosts <= B
                   /\ response.status_code = PostStatuses[NPosts]
              ELSE /\ NPosts = B
                   /\ response.status_code = 429

\* C2: no exception leaves process_csv, and when it returns every row of
\* the file has exactly one outcome line, in file order.
C2_EveryRowGetsOutcome ==
    /\ pc # "raised"
    /\ exc = "none"
    /\ pc = "done" =>
          /\ Len(out) = Len(rows)
          /\ \A i \in 1..Len(out) : out[i].row = i

\* the delay the specification gives for a Retry-After header value
ExpectedDelay(h) == IF h = None THEN 10 ELSE int(h).val

\* C3: after a 429 the call never raises, whatever the Retry-After header
\* is; the delay is 10 when the header is absent and the number it holds
\* when it is numeric.
C3_RetryAfterNeverCrashes ==
    (trace # <<>> /\ response.status_code = 429) =>
        LET h == DictGet(response.headers, RETRY_AFTER, None)
        IN /\ exc = "none"
           /\ pc # "raised"
           /\ (pc = "sleep" /\ (h = None \/ int(h).ok)) =>
                  retry_after = ExpectedDelay(h)

\* a row whose ISSUE_URL gives three non-empty identifiers
Parsable(row) ==
    LET raw == DictGet(row, ISSUE_URL, <<>>)
    IN /\ raw # None
       /\ Truthy(strip(raw))
       /\ Truthy(parse_org_id(strip(raw)))
       /\ Truthy(parse_project_id(strip(raw)))
       /\ Truthy(parse_issue_id(strip(raw)))

\* the trimmed text of the configured reason column, empty when the column
\* is missing from the row
ColumnText(row) ==
    LET v == DictGet(row, ignore_text_column, None)
    IN IF v = None THEN <<>> ELSE strip(v)

\* the reason the five cases of the composition rule give; None for a skip
ExpectedReason(row) ==
    IF ~Truthy(ignore_text_column) THEN reason_text
    ELSE IF ColumnText(row) # <<>>
         THEN IF Truthy(reason_text)
              THEN reason_text \o <<" ">> \o ColumnText(row)
              ELSE ColumnText(row)
         ELSE IF Truthy(reason_text) THEN reason_text ELSE None

RowSkipped ==
    /\ trace = <<>>
    /\ pc \in {"loop", "done"}
    /\ Len(out) >= 1
    /\ LastOut.row = idx
    /\ LastOut.kind = "Skipped"
    /\ Cardinality({i \in 1..Len(out) : out[i].row = idx}) = 1

\* C4: for a row with parsable identifiers the POSTed reason is the static
\* text (no column configured, or column value empty or missing), the
\* static text, a space and the column text (both present), or the column
\* text (no static text); with neither, the row is skipped without a POST.
C4_ReasonComposition ==
    (idx >= 1 /\ Parsable(rows[idx])) =>
        LET e == ExpectedReason(rows[idx])
        IN IF e = None THEN RowSkipped
           ELSE /\ exc # "AttributeError"
                /\ final_reason_text = e
                /\ trace # <<>> => request.reason = e
                /\ pc \in {"loop", "done"} =>
                      /\ Len(out) >= 1
                      /\ LastOut.row = idx
                      /\ LastOut.kind # "Skipped"

\* C5: a row whose ISSUE_URL is missing, empty or blank, or whose
\* identifiers do not all parse to non-empty strings, makes no POST and has
\* exactly one Skipped outcome; every POST carries three non-empty
\* identifiers.
C5_UnparsableRowsSkipped ==
    /\ (idx >= 1 /\ ~Parsable(rows[idx])) => RowSkipped
    /\ trace # <<>> =>
          /\ Truthy(request.org_id)
          /\ Truthy(request.project_id)
          /\ Truthy(request.issue_id)

\* C6: a row that reached the client is reported as Success exactly when the
\* response the call returned has status 200, and as Failed with that status
\* otherwise; a 429 followed by a 200 within the budget is a Success, a 429
\* that outlived the budget is Failed with status 429.
C6_Classification ==
    (pc \in {"loop", "done"} /\ trace # <<>>) =>
        /\ Len(out) >= 1
        /\ LastOut.row = idx
        /\ LastOut.status = PostStatuses[NPosts]
        /\ LastOut.kind = "Success" <=> PostStatuses[NPosts] = 200
        /\ LastOut.kind = "Failed" <=> PostStatuses[NPosts] # 200

C6_Witness ==
    /\ pc = "loop"
    /\ NPosts = 2
    /\ PostStatuses[1] = 429
    /\ PostStatuses[2] = 200
    /\ Len(out) >= 1
    /\ LastOut.kind = "Success"

\* the text after the first occurrence of marker m, to the end of u
AfterFirst(u, m) == SubSeq(u, Find(u, m, 1) + Len(m), Len(u))

\* C7: parse_issue_id gives nothing without the marker '#issue-', and else
\* the percent-decoding of everything after its first occurrence, later
\* occurrences included.
C7_IssueIdAfterFirstMarker ==
    issue_id # Unset =>
        issue_id = IF Contains(issue_url, ISSUE_MARKER)
                   THEN unquote(AfterFirst(issue_url, ISSUE_MARKER))
                   ELSE None

\* C8: every sleep directly follows a POST answered by 429, lasts the
\* Retry-After of that response and is followed by another POST: a call that
\* has returned ends with a POST and has slept once less than it POSTed.
C8_SleepsBetweenPosts ==
    /\ \A i \in 1..Len(trace) :
          trace[i].kind = "sleep" =>
              /\ i > 1
              /\ trace[i - 1].kind = "post"
              /\ trace[i - 1].status = 429
              /\ trace[i].secs = ExpectedDelay(trace[i - 1].header)
    /\ pc = "returned" =>
          /\ trace[Len(trace)].kind = "post"
          /\ NSleeps = NPosts - 1

InCall == pc \in {"post", "sleep", "returned"}

\* C9, in every state: the outcome lines are in file order with at most one
\* per row; while row idx is in its call every earlier row has its outcome
\* and no later row has one; a call makes at most 3 POSTs and at least 1
\* once it has returned; when process_csv returns every row was visited
\* and has its outcome.
C9_State ==
    /\ \A i, j \in 1..Len(out) : i < j => out[i].row < out[j].row
    /\ idx <= Len(rows)
    /\ InCall => idx >= 1 /\ OutRows = 1..(idx - 1)
    /\ pc \in {"loop", "done"} => OutRows = 1..idx
    /\ NPosts <= 3
    /\ pc = "returned" => NPosts >= 1
    /\ (pc \in {"loop", "done"} /\ Len(out) >= 1
            /\ LastOut.kind # "Skipped") => NPosts \in 1..3
    /\ pc = "done" => idx = Len(rows)

\* C9, in every step: the reader only moves forward, one row at a time and
\* only between two rows' work; a POST or sleep belongs to the row being
\* processed and happens before any outcome of that row or a later one.
C9_Step ==
    /\ idx' \in {idx, idx + 1}
    /\ idx' = idx + 1 => pc = "loop" /\ OutRows = 1..idx
    /\ (trace' # trace /\ trace' # <<>>) =>
          /\ idx' = idx
          /\ \A i \in 1..Len(out') : out'[i].row < idx
          /\ out' = out

ExpectedSegment(u, m, stops) ==
    IF ~Contains(u, m) THEN None
    ELSE LET rest == AfterFirst(u, m)
             K == {i \in 1..Len(rest) : rest[i] \in stops}
             seg == IF K = {} THEN rest ELSE SubSeq(rest, 1, MinOf(K) - 1)
         IN IF seg = <<>> THEN None ELSE seg

\* C10: parse_org_id and parse_project_id give nothing, not an empty string,
\* when the segment after the first occurrence of their marker is empty, and
\* give exactly that segment when it is not.
C10_EmptySegmentIsNothing ==
    /\ org_id # Unset =>
          org_id = ExpectedSegment(issue_url, ORG_MARKER, {"/"})
    /\ project_id # Unset =>
          project_id = ExpectedSegment(issue_url, PROJECT_MARKER, {"#", "/"})

====
